---- MODULE Spec2Model ----
(***************************************************************************)
(* bmqc::AtomicList (bmqc_atomiclist.h): a singly linked chain of          *)
(* DataPlaceholder nodes with an atomic head, an atomic tail and the       *)
(* reclamation-suppression counter d_stopGc.  Any number of threads call   *)
(* store, swap and load; one maintenance thread calls gcHead.  Every       *)
(* atomic operation of the source is one step; the BDE atomics default to  *)
(* sequential consistency, so the steps of concurrent calls interleave.    *)
(*                                                                         *)
(* Threads are anonymous: the model keeps the calls in flight, not the     *)
(* threads that make them.  A store / swap call is named by the node it    *)
(* allocates (its local 'version'), a load call by its number.  Any set of *)
(* calls may overlap, which is what an unbounded pool of threads can do.   *)
(***************************************************************************)
EXTENDS Integers, Sequences, FiniteSets, TLC

\* ------------------------------------------------------------------ bounds
\* Number of DataPlaceholder objects ever allocated, the sentinel included:
\* at most MaxNodes - 1 store / swap calls are made.
MaxNodes == 3
\* Number of load calls made (d_stopGc counts them and is never decremented).
MaxLoads == 1

\* ------------------------------------------------------------ constants
\* The null pointer: DataPlaceholder::d_next_p(0).
Null == 0
\* The payload of the node the constructor creates: DataPlaceholder(0).
SentinelData == 0
\* The node the constructor creates.
Sentinel == 1
\* What a read of a deleted node may find beside the old payload: a value
\* that was never stored.
Garbage == -1
\* "nothing written yet" for the result slots '*previous' and '*out'.
NoVal == -2

\* NUM_THREADS of GenericBenchmark::run<NUM_THREADS>.
NumWorkers == 3

NodeIds == 1..MaxNodes
LoadIds == 1..MaxLoads
\* Payloads passed to store / swap.
Values == {5, 7}

VARIABLES
    d_head,        \* AtomicList::d_head
    d_tail,        \* AtomicList::d_tail
    d_stopGc,      \* AtomicList::d_stopGc
    nAlloc,        \* nodes 1..nAlloc have been allocated
    d_data,        \* DataPlaceholder::d_data of each node
    d_next_p,      \* DataPlaceholder::d_next_p of each node
    freeCount,     \* deleteObject calls made on each node
    pc,            \* position of the store / swap call that allocated node c
    old,           \* local 'old' of that call
    previous,      \* '*previous' written by that call (swap)
    nLoads,        \* load calls made so far
    lpc,           \* position of each load call
    latest,        \* local 'latest' of each load call
    out,           \* '*out' written by each load call
    gcPc,          \* position of the maintenance thread inside gcHead
    node,          \* local 'node' of gcHead
    next,          \* local 'next' of gcHead
    assertOk,      \* FALSE once a BSLS_ASSERT_SAFE has failed
    threw,         \* the call ("store" / "swap") whose 'new' threw since the
                   \* last node was allocated, "none" otherwise
    \* ---- GenericBenchmark::run (bmqtst_benchmark.h)
    dpc,                    \* position of the driver inside run
    started,                \* loop counter 'i' of the addThread loop
    wpc,                    \* position of each worker inside threadFn
    initThreadLatch,        \* count left on initThreadLatch
    startBenchmarkBarrier,  \* threads blocked in startBenchmarkBarrier.wait
    finishBenchmarkLatch,   \* count left on finishBenchmarkLatch
    iter,                   \* local 'iter' of run
    \* ---- history (observers; no step reads them to decide what to do)
    order,         \* the nodes in the order they became d_tail
    prevOf,        \* the 'old' each store / swap call obtained
    before,        \* the calls that had returned when call c began
    completed,     \* store / swap calls that have returned
    tailSeen,      \* nodes that were d_tail during each load call
    gcBegan,       \* d_head when the gcHead call began, Null once the call
                   \* overlapped another operation or if head had no successor
    gcFreed        \* nodes deleted by the current / last gcHead call

shared == <<d_head, d_tail, d_stopGc, nAlloc, d_data, d_next_p, freeCount>>
prodvars == <<pc, old, previous>>
loadvars == <<nLoads, lpc, latest, out>>
gcvars == <<gcPc, node, next>>
hist == <<order, prevOf, before, completed, tailSeen, gcBegan, gcFreed>>
benchvars == <<dpc, started, wpc, initThreadLatch, startBenchmarkBarrier,
               finishBenchmarkLatch, iter>>
listvars == <<shared, prodvars, loadvars, gcvars, assertOk, threw, hist>>
vars == <<listvars, benchvars>>

\* --------------------------------------------- GenericBenchmark::run: state
Workers == 1..NumWorkers

\* 'bslmt::Latch initThreadLatch(NUM_THREADS);
\*  bslmt::Barrier startBenchmarkBarrier(NUM_THREADS + 1);
\*  bslmt::Latch finishBenchmarkLatch(NUM_THREADS);' and the driver about to
\* call initialize.
BenchInit ==
    /\ dpc = "initialize"
    /\ started = 0
    /\ wpc = [w \in Workers |-> "unborn"]
    /\ initThreadLatch = NumWorkers
    /\ startBenchmarkBarrier = 0
    /\ finishBenchmarkLatch = NumWorkers
    /\ iter = 0

\* ------------------------------------------------------------- helpers
IsFreed(n) == n # Null /\ freeCount[n] > 0

\* d_next_p of a node, nothing for the null pointer.
NextOf(n) == IF n = Null THEN Null ELSE d_next_p[n]

\* A call is in flight.
InProducer(c) == pc[c] \in {"store_link", "swap_read", "swap_link"}
InLoad(l) == lpc[l] \in {"load_tail", "load_read", "load_end"}
AllWorkersIdle == (\A c \in NodeIds : ~InProducer(c))
                  /\ (\A l \in LoadIds : ~InLoad(l))

\* The record of the gcHead call lasts until the next step of a worker: a
\* worker step during the call makes the call concurrent with another
\* operation, one after it starts a new episode.
FreedAfterWorkerStep == IF gcPc = "idle" THEN 0 ELSE gcFreed

\* ---------------------------------------------------------------- Init
\* AtomicList::AtomicList: d_head(new DataPlaceholder(0)), d_tail(d_head),
\* d_stopGc(0).
Init ==
    /\ d_head = Sentinel
    /\ d_tail = Sentinel
    /\ d_stopGc = 0
    /\ nAlloc = 1
    /\ d_data = [n \in NodeIds |-> SentinelData]
    /\ d_next_p = [n \in NodeIds |-> Null]
    /\ freeCount = [n \in NodeIds |-> 0]
    /\ pc = [c \in NodeIds |-> "none"]
    /\ old = [c \in NodeIds |-> Null]
    /\ previous = [c \in NodeIds |-> NoVal]
    /\ nLoads = 0
    /\ lpc = [l \in LoadIds |-> "none"]
    /\ latest = [l \in LoadIds |-> Null]
    /\ out = [l \in LoadIds |-> NoVal]
    /\ gcPc = "idle"
    /\ node = Null
    /\ next = Null
    /\ assertOk = TRUE
    /\ threw = "none"
    /\ BenchInit
    /\ order = <<Sentinel>>
    /\ prevOf = [c \in NodeIds |-> Null]
    /\ before = [c \in NodeIds |-> {}]
    /\ completed = {}
    /\ tailSeen = [l \in LoadIds |-> {}]
    /\ gcBegan = Null
    /\ gcFreed = 0

\* ------------------------------------------------------- store and swap
\* The first two statements of both store and swap, as one step:
\*   'version = new (*d_allocator_p) DataPlaceholder(data)' and an exchange
\*   of d_tail that hands 'got' to the caller in 'old'.
\* The new node is private to the caller until the exchange (no other thread
\* holds a pointer to it), so the allocation commutes with every step of the
\* other threads and is taken together with the exchange.  The call is named
\* c = version.
Exchange(c, data, got, to) ==
    /\ c = nAlloc + 1
    /\ nAlloc < MaxNodes
    /\ nAlloc' = c
    /\ d_data' = [d_data EXCEPT ![c] = data]
    /\ d_next_p' = [d_next_p EXCEPT ![c] = Null]
    /\ before' = [before EXCEPT ![c] = completed]
    /\ old' = [old EXCEPT ![c] = got]
    /\ d_tail' = c
    /\ pc' = [pc EXCEPT ![c] = to]
    /\ order' = Append(order, c)
    /\ prevOf' = [prevOf EXCEPT ![c] = got]
    /\ tailSeen' = [l \in LoadIds |->
                      IF InLoad(l) THEN tailSeen[l] \cup {c} ELSE tailSeen[l]]
    /\ gcBegan' = Null
    /\ gcFreed' = FreedAfterWorkerStep
    /\ threw' = "none"
    /\ UNCHANGED <<benchvars,
                   d_head, d_stopGc, freeCount,
                   previous, loadvars, gcvars, assertOk, completed>>

\* Plausible slip: the caller is handed d_head instead of the old d_tail.
TailSwap_fromHead(c, data, to) == Exchange(c, data, d_head, to)

\* '... new DataPlaceholder(data); old = d_tail.swap(version);': the
\* exchange is one atomic operation.
TailSwap(c, data, to) == Exchange(c, data, d_tail, to)

\* The effect of linking node 'from' to node 'target' and returning; the
\* locals and the caller's '*previous' leave the model with the call.
LinkAndReturn(c, from, target) ==
    /\ d_next_p' = [d_next_p EXCEPT ![from] = target]
    /\ completed' = completed \cup {c}
    /\ pc' = [pc EXCEPT ![c] = "done"]
    /\ old' = [old EXCEPT ![c] = Null]
    /\ previous' = [previous EXCEPT ![c] = NoVal]
    /\ gcBegan' = Null
    /\ gcFreed' = FreedAfterWorkerStep
    /\ UNCHANGED <<benchvars, threw,
                   d_head, d_tail, d_stopGc, nAlloc, d_data, freeCount,
                   loadvars, gcvars, assertOk, order, prevOf, before,
                   tailSeen>>

\* BSLS_ASSERT_SAFE(old) failing: the call does not go on.
AssertOldFails(c) ==
    /\ assertOk' = FALSE
    /\ pc' = [pc EXCEPT ![c] = "aborted"]
    /\ gcBegan' = Null
    /\ gcFreed' = FreedAfterWorkerStep
    /\ UNCHANGED <<benchvars, threw,
                   shared, old, previous, loadvars, gcvars, order, prevOf,
                   before, completed, tailSeen>>

\* Plausible slip: the link is written into the new node, towards the old.
LinkPredecessor_reversed(c) ==
    IF old[c] = Null THEN AssertOldFails(c)
    ELSE LinkAndReturn(c, c, old[c])

\* 'BSLS_ASSERT_SAFE(old); old->d_next_p.store(version);' and return.
LinkPredecessor(c) ==
    IF old[c] = Null THEN AssertOldFails(c)
    ELSE LinkAndReturn(c, old[c], c)

\* The effect of swap's '*previous = ...' reading the payload of node n.
\* Reading a deleted node is undefined: the old payload or anything else.
ReadPrevious(c, n) ==
    /\ \E val \in (IF IsFreed(n) THEN {d_data[n], Garbage} ELSE {d_data[n]}) :
          previous' = [previous EXCEPT ![c] = val]
    /\ pc' = [pc EXCEPT ![c] = "swap_link"]
    /\ gcBegan' = Null
    /\ gcFreed' = FreedAfterWorkerStep
    /\ UNCHANGED <<benchvars, threw,
                   shared, old, loadvars, gcvars, assertOk, order, prevOf,
                   before, completed, tailSeen>>

\* void store(int data)
Store_swap(c, data) ==
    /\ pc[c] = "none"
    /\ TailSwap(c, data, "store_link")

Store_link(c) ==
    /\ pc[c] = "store_link"
    /\ LinkPredecessor(c)

\* void swap(int *previous, int data)
Swap_swap(c, data) ==
    /\ pc[c] = "none"
    /\ TailSwap(c, data, "swap_read")

\* Plausible slip: swap reports the payload of its own node.
Swap_read_own(c) ==
    /\ pc[c] = "swap_read"
    /\ IF old[c] = Null THEN AssertOldFails(c) ELSE ReadPrevious(c, c)

\* 'BSLS_ASSERT_SAFE(old); *previous = old->d_data;'
Swap_read(c) ==
    /\ pc[c] = "swap_read"
    /\ IF old[c] = Null THEN AssertOldFails(c) ELSE ReadPrevious(c, old[c])

\* 'old->d_next_p.store(version);' and return.
Swap_link(c) ==
    /\ pc[c] = "swap_link"
    /\ LinkPredecessor(c)

\* Plausible slip: the allocator hands back a null pointer instead of
\* throwing, and the call goes on to exchange it into d_tail.
BadAlloc_nullVersion(kind) ==
    /\ nAlloc < MaxNodes
    /\ threw' = kind
    /\ d_tail' = Null
    /\ gcBegan' = Null
    /\ gcFreed' = FreedAfterWorkerStep
    /\ UNCHANGED <<benchvars, d_head, d_stopGc, nAlloc, d_data, d_next_p,
                   freeCount, prodvars, loadvars, gcvars, assertOk, order,
                   prevOf, before, completed, tailSeen>>

\* 'new (*d_allocator_p) DataPlaceholder(data)' throwing std::bad_alloc: the
\* exception leaves store / swap before 'd_tail.swap(version)', so the call
\* ends having touched nothing of the list.  (Only calls within the budget of
\* MaxNodes are made, failed ones included.)
BadAlloc(kind) ==
    /\ nAlloc < MaxNodes
    /\ threw' = kind
    /\ gcBegan' = Null
    /\ gcFreed' = FreedAfterWorkerStep
    /\ UNCHANGED <<benchvars, shared, prodvars, loadvars, gcvars, assertOk,
                   order, prevOf, before, completed, tailSeen>>

\* store, its allocation failing.
Store_badAlloc == BadAlloc("store")

\* swap, its allocation failing.
Swap_badAlloc == BadAlloc("swap")

\* ----------------------------------------------------------------- load
\* '++d_stopGc;' -- the first statement of load.
Load_inc(l) ==
    /\ l = nLoads + 1
    /\ nLoads < MaxLoads
    /\ lpc[l] = "none"
    /\ nLoads' = l
    /\ d_stopGc' = d_stopGc + 1
    /\ lpc' = [lpc EXCEPT ![l] = "load_tail"]
    /\ tailSeen' = [tailSeen EXCEPT ![l] = {d_tail}]
    /\ gcBegan' = Null
    /\ gcFreed' = FreedAfterWorkerStep
    /\ UNCHANGED <<benchvars, threw,
                   d_head, d_tail, nAlloc, d_data, d_next_p, freeCount,
                   prodvars, latest, out, gcvars, assertOk, order, prevOf,
                   before, completed>>

\* 'latest = d_tail.load();'
Load_tail(l) ==
    /\ lpc[l] = "load_tail"
    /\ latest' = [latest EXCEPT ![l] = d_tail]
    /\ lpc' = [lpc EXCEPT ![l] = "load_read"]
    /\ gcBegan' = Null
    /\ gcFreed' = FreedAfterWorkerStep
    /\ UNCHANGED <<benchvars, threw,
                   shared, prodvars, nLoads, out, gcvars, assertOk, order,
                   prevOf, before, completed, tailSeen>>

\* BSLS_ASSERT_SAFE(latest) failing: the call does not go on.
AssertLatestFails(l) ==
    /\ assertOk' = FALSE
    /\ lpc' = [lpc EXCEPT ![l] = "aborted"]
    /\ gcBegan' = Null
    /\ gcFreed' = FreedAfterWorkerStep
    /\ UNCHANGED <<benchvars, threw,
                   shared, prodvars, nLoads, latest, out, gcvars, order,
                   prevOf, before, completed, tailSeen>>

\* The effect of '*out = latest->d_data;'.  Reading a deleted node is
\* undefined: the old payload or anything else.
ReadLatest(l) ==
    /\ \E val \in (IF IsFreed(latest[l]) THEN {d_data[latest[l]], Garbage}
                   ELSE {d_data[latest[l]]}) :
          out' = [out EXCEPT ![l] = val]
    /\ lpc' = [lpc EXCEPT ![l] = "load_end"]
    /\ gcBegan' = Null
    /\ gcFreed' = FreedAfterWorkerStep
    /\ UNCHANGED <<benchvars, threw,
                   shared, prodvars, nLoads, latest, gcvars, assertOk, order,
                   prevOf, before, completed, tailSeen>>

\* 'BSLS_ASSERT_SAFE(latest); *out = latest->d_data;'
Load_read(l) ==
    /\ lpc[l] = "load_read"
    /\ IF latest[l] = Null THEN AssertLatestFails(l) ELSE ReadLatest(l)

\* '//--d_stopGc; }': the decrement is commented out, the call returns with
\* d_stopGc as it is; the locals and the caller's '*out' leave the model.
Load_end(l) ==
    /\ lpc[l] = "load_end"
    /\ lpc' = [lpc EXCEPT ![l] = "done"]
    /\ latest' = [latest EXCEPT ![l] = Null]
    /\ out' = [out EXCEPT ![l] = NoVal]
    /\ tailSeen' = [tailSeen EXCEPT ![l] = {}]
    /\ gcBegan' = Null
    /\ gcFreed' = FreedAfterWorkerStep
    /\ UNCHANGED <<benchvars, threw,
                   shared, prodvars, nLoads, gcvars, assertOk, order, prevOf,
                   before, completed>>

\* --------------------------------------------------------------- gcHead
\* gcHead is called by one maintenance thread: its calls never overlap.

\* Plausible slip: gcHead goes on whatever d_stopGc is.
Gc_check_unguarded ==
    /\ gcPc = "idle"
    /\ gcPc' = "load_head"
    /\ gcBegan' = IF AllWorkersIdle /\ NextOf(d_head) # Null THEN d_head
                  ELSE Null
    /\ gcFreed' = 0
    /\ UNCHANGED <<benchvars, threw,
                   shared, prodvars, loadvars, node, next, assertOk, order,
                   prevOf, before, completed, tailSeen>>

\* 'if (d_stopGc == 0) {' -- the first statement of gcHead; with the counter
\* not zero the call returns at once.
Gc_check ==
    /\ gcPc = "idle"
    /\ gcPc' = IF d_stopGc = 0 THEN "load_head" ELSE "idle"
    /\ gcBegan' = IF AllWorkersIdle /\ NextOf(d_head) # Null THEN d_head
                  ELSE Null
    /\ gcFreed' = 0
    /\ UNCHANGED <<benchvars, threw,
                   shared, prodvars, loadvars, node, next, assertOk, order,
                   prevOf, before, completed, tailSeen>>

\* 'node = d_head.load(); if (node) {'
Gc_loadHead ==
    /\ gcPc = "load_head"
    /\ node' = IF d_head # Null THEN d_head ELSE Null
    /\ gcPc' = IF d_head # Null THEN "load_next" ELSE "idle"
    /\ UNCHANGED <<benchvars, threw,
                   shared, prodvars, loadvars, next, assertOk, hist>>

\* The effect of 'next = node->d_next_p.load();' followed by the branch:
\* on to the delete when goOn, the return otherwise.
GcReadNext(goOn) ==
    /\ next' = IF goOn THEN d_next_p[node] ELSE Null
    /\ node' = IF goOn THEN node ELSE Null
    /\ gcPc' = IF goOn THEN "delete" ELSE "idle"
    /\ UNCHANGED <<benchvars, threw,
                   shared, prodvars, loadvars, assertOk, order, prevOf,
                   before, completed, tailSeen, gcBegan,
                   gcFreed>>

\* Plausible slip: the 'if (next)' test is missing.
Gc_loadNext_unchecked ==
    /\ gcPc = "load_next"
    /\ GcReadNext(TRUE)

\* 'next = node->d_next_p.load(); if (next) {'
Gc_loadNext ==
    /\ gcPc = "load_next"
    /\ GcReadNext(d_next_p[node] # Null)

\* 'd_allocator_p->deleteObject(node);'
Gc_delete ==
    /\ gcPc = "delete"
    /\ freeCount' = [freeCount EXCEPT ![node] = @ + 1]
    /\ gcFreed' = gcFreed + 1
    /\ gcPc' = "store_head"
    /\ UNCHANGED <<benchvars, threw,
                   d_head, d_tail, d_stopGc, nAlloc, d_data, d_next_p,
                   prodvars, loadvars, node, next, assertOk, order, prevOf,
                   before, completed, tailSeen, gcBegan>>

\* The effect of a store of 'to' into d_head, and the return.
GcStoreHead(to) ==
    /\ d_head' = to
    /\ gcPc' = "idle"
    /\ node' = Null
    /\ next' = Null
    /\ UNCHANGED <<benchvars, threw,
                   d_tail, d_stopGc, nAlloc, d_data, d_next_p, freeCount,
                   prodvars, loadvars, assertOk, hist>>

\* Plausible slip: the deleted node is stored back as the head.
Gc_storeHead_stale ==
    /\ gcPc = "store_head"
    /\ GcStoreHead(node)

\* 'd_head.store(next);' and return.
Gc_storeHead ==
    /\ gcPc = "store_head"
    /\ GcStoreHead(next)

\* One step of the maintenance thread.
GcHead == Gc_check \/ Gc_loadHead \/ Gc_loadNext \/ Gc_delete \/ Gc_storeHead

\* ----------------------------------------------------------------- Next
Next ==
    \/ \E c \in NodeIds, data \in Values : Store_swap(c, data)
    \/ \E c \in NodeIds : Store_link(c)
    \/ \E c \in NodeIds, data \in Values : Swap_swap(c, data)
    \/ \E c \in NodeIds : Swap_read(c)
    \/ \E c \in NodeIds : Swap_link(c)
    \/ Store_badAlloc
    \/ Swap_badAlloc
    \/ \E l \in LoadIds : Load_inc(l)
    \/ \E l \in LoadIds : Load_tail(l)
    \/ \E l \in LoadIds : Load_read(l)
    \/ \E l \in LoadIds : Load_end(l)
    \/ Gc_check
    \/ Gc_loadHead
    \/ Gc_loadNext
    \/ Gc_delete
    \/ Gc_storeHead

Spec == Init /\ [][Next]_vars

\* Fair scheduling of the producer threads: a store / swap call that has
\* exchanged the tail is not left forever short of its remaining steps.
FairSpec ==
    /\ Spec
    /\ \A c \in NodeIds :
          /\ WF_vars(Store_link(c))
          /\ WF_vars(Swap_read(c))
          /\ WF_vars(Swap_link(c))

\* ------------------------------------------------ GenericBenchmark::run
\* Parties of startBenchmarkBarrier: 'Barrier(NUM_THREADS)', the driver not
\* counted (plausible slip).
BarrierParties_noDriver == NumWorkers

\* Parties of startBenchmarkBarrier: 'Barrier(NUM_THREADS + 1)'.
BarrierParties == NumWorkers + 1

\* bslmt::Barrier::wait by the driver (who = 0) or by worker who: the caller
\* blocks, unless it is the last party to arrive, which releases every
\* blocked thread and itself.
BarrierWait(who) ==
    IF startBenchmarkBarrier + 1 = BarrierParties
    THEN /\ startBenchmarkBarrier' = 0
         /\ wpc' = [w \in Workers |->
                      IF w = who \/ wpc[w] = "barrier_wait" THEN "bench"
                      ELSE wpc[w]]
         /\ dpc' = IF who = 0 \/ dpc = "barrier_wait" THEN "finish_wait"
                   ELSE dpc
    ELSE /\ startBenchmarkBarrier' = startBenchmarkBarrier + 1
         /\ wpc' = [w \in Workers |->
                      IF w = who THEN "barrier_wait" ELSE wpc[w]]
         /\ dpc' = IF who = 0 THEN "barrier_wait" ELSE dpc

\* 'initialize(NUM_THREADS);'
Run_initialize ==
    /\ dpc = "initialize"
    /\ dpc' = "addThread"
    /\ UNCHANGED <<listvars, started, wpc, initThreadLatch,
                   startBenchmarkBarrier, finishBenchmarkLatch, iter>>

\* One pass of 'for (i = 0; i < NUM_THREADS; ++i) { rc = addThread(...);
\* BMQTST_ASSERT_EQ_D(i, rc, 0); }': the thread runs threadFn when rc is 0;
\* with rc not 0 there is no thread, the test assertion records the failure
\* and the loop goes on.
Run_addThread ==
    /\ dpc = "addThread"
    /\ started < NumWorkers
    /\ started' = started + 1
    /\ \E rcOk \in BOOLEAN :
          wpc' = [wpc EXCEPT ![started + 1] =
                     IF rcOk THEN "init_arrive" ELSE "failed"]
    /\ dpc' = IF started + 1 = NumWorkers THEN "init_wait" ELSE "addThread"
    /\ UNCHANGED <<listvars, initThreadLatch, startBenchmarkBarrier,
                   finishBenchmarkLatch, iter>>

\* 'initThreadLatch.wait();' returning: the count has reached 0.  The
\* range-for over 'state' then starts its first pass (a benchmark state
\* runs at least one iteration).
Run_initWait ==
    /\ dpc = "init_wait"
    /\ initThreadLatch = 0
    /\ dpc' = "loop"
    /\ UNCHANGED <<listvars, started, wpc, initThreadLatch,
                   startBenchmarkBarrier, finishBenchmarkLatch, iter>>

\* 'BSLS_ASSERT_OPT(0 == iter++ && "Must be run only once");'
Run_loop ==
    /\ dpc = "loop"
    /\ iter' = iter + 1
    /\ dpc' = IF iter = 0 THEN "barrier" ELSE "aborted"
    /\ UNCHANGED <<listvars, started, wpc, initThreadLatch,
                   startBenchmarkBarrier, finishBenchmarkLatch>>

\* 'startBenchmarkBarrier.wait();' in run.
Run_barrier ==
    /\ dpc = "barrier"
    /\ BarrierWait(0)
    /\ UNCHANGED <<listvars, started, initThreadLatch, finishBenchmarkLatch,
                   iter>>

\* 'finishBenchmarkLatch.wait();' returning: the count has reached 0.
Run_finishWait ==
    /\ dpc = "finish_wait"
    /\ finishBenchmarkLatch = 0
    /\ dpc' = "loop_test"
    /\ UNCHANGED <<listvars, started, wpc, initThreadLatch,
                   startBenchmarkBarrier, finishBenchmarkLatch, iter>>

\* The range-for's test after a pass: 'state' asks for another pass, or the
\* loop ends.
Run_loopTest ==
    /\ dpc = "loop_test"
    /\ \E again \in BOOLEAN : dpc' = IF again THEN "loop" ELSE "joinAll"
    /\ UNCHANGED <<listvars, started, wpc, initThreadLatch,
                   startBenchmarkBarrier, finishBenchmarkLatch, iter>>

\* 'threadGroup.joinAll();' returning: every thread created has ended.
Run_joinAll ==
    /\ dpc = "joinAll"
    /\ \A w \in Workers : wpc[w] \in {"exit", "failed"}
    /\ dpc' = "done"
    /\ UNCHANGED <<listvars, started, wpc, initThreadLatch,
                   startBenchmarkBarrier, finishBenchmarkLatch, iter>>

\* 'initLatch_p->arrive();'
ThreadFn_initArrive(w) ==
    /\ wpc[w] = "init_arrive"
    /\ initThreadLatch' = initThreadLatch - 1
    /\ wpc' = [wpc EXCEPT ![w] = "barrier"]
    /\ UNCHANGED <<listvars, dpc, started, startBenchmarkBarrier,
                   finishBenchmarkLatch, iter>>

\* 'startBarrier_p->wait();' in threadFn.
ThreadFn_barrier(w) ==
    /\ wpc[w] = "barrier"
    /\ BarrierWait(w)
    /\ UNCHANGED <<listvars, started, initThreadLatch, finishBenchmarkLatch,
                   iter>>

\* 'bench();' from its first statement to its return.
ThreadFn_bench(w) ==
    /\ wpc[w] = "bench"
    /\ wpc' = [wpc EXCEPT ![w] = "finish_arrive"]
    /\ UNCHANGED <<listvars, dpc, started, initThreadLatch,
                   startBenchmarkBarrier, finishBenchmarkLatch, iter>>

\* 'finishLatch_p->arrive();' and the end of the thread.
ThreadFn_finishArrive(w) ==
    /\ wpc[w] = "finish_arrive"
    /\ finishBenchmarkLatch' = finishBenchmarkLatch - 1
    /\ wpc' = [wpc EXCEPT ![w] = "exit"]
    /\ UNCHANGED <<listvars, dpc, started, initThreadLatch,
                   startBenchmarkBarrier, iter>>

BenchNext ==
    \/ Run_initialize
    \/ Run_addThread
    \/ Run_initWait
    \/ Run_loop
    \/ Run_barrier
    \/ Run_finishWait
    \/ Run_loopTest
    \/ Run_joinAll
    \/ \E w \in Workers : ThreadFn_initArrive(w)
    \/ \E w \in Workers : ThreadFn_barrier(w)
    \/ \E w \in Workers : ThreadFn_bench(w)
    \/ \E w \in Workers : ThreadFn_finishArrive(w)

BenchSpec == Init /\ [][BenchNext]_vars

\* =================================================================
\* Properties
\* =================================================================

\* Position of node n in the order of tail exchanges.
InOrder(n) == \E i \in 1..Len(order) : order[i] = n
Pos(n) == CHOOSE i \in 1..Len(order) : order[i] = n

\* The nodes met by following d_next_p from n, n first; the walk stops at
\* the null pointer, or at a node met before (which is then listed twice).
RECURSIVE Chain(_, _)
Chain(n, seen) ==
    IF n = Null THEN <<>>
    ELSE IF n \in seen THEN <<n>>
    ELSE <<n>> \o Chain(d_next_p[n], seen \cup {n})

HeadChain == Chain(d_head, {})
FreedNodes == {n \in NodeIds : freeCount[n] > 0}
NoProducerInFlight == \A c \in NodeIds : ~InProducer(c)
NoLoadInFlight == \A l \in LoadIds : ~InLoad(l)

\* C1: load never reads the payload of a deleted node: whenever a load call
\* takes its '*out = latest->d_data' step, the node 'latest' it got from
\* d_tail has not been deleted.
C1_LoadReadsLiveNode ==
    [][\A l \in LoadIds :
          (lpc[l] = "load_read" /\ lpc'[l] = "load_end")
              => ~IsFreed(latest[l])]_vars

\* C2: gcHead never deletes a node while a guard is outstanding: whenever
\* gcHead takes its deleteObject step, d_stopGc is 0.
C2_DeleteOnlyAtZero ==
    [][(gcPc = "delete" /\ gcPc' = "store_head") => d_stopGc = 0]_vars

\* C3: every load call decrements d_stopGc before it returns: whenever no
\* load call is in flight, d_stopGc is 0.
C3_CounterBalanced == NoLoadInFlight => d_stopGc = 0

\* C4: no two store / swap calls obtain the same predecessor from the tail
\* exchange.
C4_DistinctPredecessors ==
    \A a, b \in NodeIds :
        (a # b /\ prevOf[a] # Null /\ prevOf[b] # Null)
            => prevOf[a] # prevOf[b]

\* C4 witness: two calls are in flight together, each past its exchange.
C4_Witness ==
    \E a, b \in NodeIds :
        a # b /\ InProducer(a) /\ InProducer(b)
        /\ prevOf[a] # Null /\ prevOf[b] # Null

\* C5: the tail exchanges form one total order that agrees with real time
\* (a call that had returned when another began comes earlier in it), and
\* every swap call reports the payload of the node just before its own in
\* that order -- the sentinel's 0 for the first.
C5_LinearizableSwap ==
    /\ \A i, j \in 1..Len(order) : order[i] = order[j] => i = j
    /\ order[1] = Sentinel
    /\ \A c \in NodeIds : (pc[c] # "none") => InOrder(c)
    /\ \A b \in NodeIds : \A a \in before[b] :
           InOrder(a) /\ InOrder(b) /\ Pos(a) < Pos(b)
    /\ \A c \in NodeIds :
           pc[c] = "swap_link"
               => /\ Pos(c) > 1
                  /\ previous[c] = d_data[order[Pos(c) - 1]]
                  /\ (Pos(c) = 2 => previous[c] = SentinelData)

\* C5 witness: a swap call that began after another call had returned has
\* read that call's payload, not the sentinel's.
C5_Witness ==
    \E c \in NodeIds :
        /\ pc[c] = "swap_link"
        /\ before[c] # {}
        /\ previous[c] \in Values

\* C6: the value load returns is the payload of a node that was d_tail at
\* some instant of the call (so 0 or a value passed to store / swap, and the
\* latest one when nothing else runs).
C6_LoadReturnsATail ==
    \A l \in LoadIds :
        lpc[l] = "load_end" => out[l] \in {d_data[n] : n \in tailSeen[l]}

\* The chain from d_head ends at d_tail, visits no node twice and holds one
\* node more than the calls that returned, less the nodes deleted.
ChainCounts ==
    /\ Len(HeadChain) >= 1
    /\ HeadChain[Len(HeadChain)] = d_tail
    /\ \A i, j \in 1..Len(HeadChain) : HeadChain[i] = HeadChain[j] => i = j
    /\ Len(HeadChain) = 1 + Cardinality(completed) - Cardinality(FreedNodes)

\* C7 as stated: in every state with no store / swap call in flight the chain
\* from d_head reaches d_tail without a repeat and counts
\* 1 + returned calls - deleted nodes.
C7_ChainCounts_AsStated == NoProducerInFlight => ChainCounts

\* C7 as amended: the same, in every state with no store / swap call in
\* flight and gcHead not between its deleteObject and its d_head.store.
C7_ChainCounts ==
    (NoProducerInFlight /\ gcPc # "store_head") => ChainCounts

\* C7 witness: two calls have returned, a node has been deleted, nothing is
\* in flight.
C7_Witness ==
    /\ NoProducerInFlight
    /\ gcPc = "idle"
    /\ Cardinality(completed) = 2
    /\ FreedNodes # {}

\* C8: a gcHead call that begins with every load returned, nothing else
\* running and a successor linked to the head, and that runs alone, deletes
\* at least one node; after store(5), store(7), load it deletes exactly the
\* sentinel.
C8_QuietGcFrees ==
    (gcPc = "idle" /\ gcBegan # Null)
        => /\ gcFreed >= 1
           /\ (/\ gcBegan = Sentinel
               /\ nLoads = 1
               /\ order = <<Sentinel, 2, 3>>
               /\ d_data[2] = 5 /\ d_data[3] = 7)
                  => (gcFreed = 1 /\ FreedNodes = {Sentinel})

\* C9: a step of gcHead taken while d_head = d_tail deletes nothing and
\* leaves d_head, d_tail, every d_next_p and d_stopGc as they are, whatever
\* d_stopGc is.
C9_GcNoOpAtTail ==
    [][(GcHead /\ d_head = d_tail)
          => UNCHANGED <<d_head, d_tail, d_next_p, d_stopGc, freeCount>>]_vars

\* C9 witness: gcHead, past its counter test, is about to read the link of
\* a head that is the tail, after an earlier call deleted the sentinel.
C9_Witness ==
    /\ gcPc = "load_next"
    /\ node = d_head
    /\ d_head = d_tail
    /\ IsFreed(Sentinel)

\* C10: no node is deleted more than once.
C10_NoDoubleFree == \A n \in NodeIds : freeCount[n] <= 1

\* C10 witness: two gcHead calls have each deleted a node (the sentinel and
\* its successor).
C10_Witness ==
    /\ Cardinality(FreedNodes) = 2
    /\ gcPc = "idle"

BenchBegun(w) == wpc[w] \in {"bench", "finish_arrive", "exit"}

\* The driver has called startBenchmarkBarrier.wait().
DriverReachedBarrier ==
    \/ dpc \in {"barrier_wait", "finish_wait", "loop_test", "joinAll",
                "done", "aborted"}
    \/ dpc = "loop" /\ iter > 0

\* The driver has returned from finishBenchmarkLatch.wait().
DriverLeftMeasured ==
    \/ dpc \in {"loop_test", "joinAll", "done", "aborted"}
    \/ dpc = "loop" /\ iter > 0

NoFork ==
    \A n, m \in NodeIds :
        (d_next_p[n] # Null /\ d_next_p[n] = d_next_p[m]) => n = m

\* The walk along d_next_p from n comes to the null pointer within k steps.
RECURSIVE EndsWithin(_, _)
EndsWithin(n, k) ==
    IF n = Null THEN TRUE
    ELSE IF k = 0 THEN FALSE
    ELSE EndsWithin(d_next_p[n], k - 1)

\* No node is reached again by following d_next_p from it: with MaxNodes
\* nodes, a walk that has not ended after MaxNodes steps has met a node
\* twice, and a walk that meets a node twice never ends.
NoCycle == \A n \in NodeIds : EndsWithin(n, MaxNodes)

\* The node at which the walk along d_next_p from n stops, k steps at most.
RECURSIVE WalkEnd(_, _)
WalkEnd(n, k) ==
    IF k = 0 \/ d_next_p[n] = Null THEN n
    ELSE WalkEnd(d_next_p[n], k - 1)

\* The last node of the chain from d_head.
HeadChainEnd == WalkEnd(d_head, MaxNodes)

C14_TailNextNull ==
    /\ d_next_p[d_tail] = Null
    /\ \A n \in NodeIds :
          d_next_p[n] # Null => (n # d_tail /\ prevOf[d_next_p[n]] = n)

\* C14 witness: links have been stored while the call whose node is the
\* tail is still before its own link store.
C14_Witness ==
    /\ \E n \in NodeIds : d_next_p[n] # Null
    /\ \E c \in NodeIds : InProducer(c) /\ d_tail = c

\* C15: d_tail and d_head are never null, and the assertions on 'old' in
\* store and swap and on 'latest' in load hold: no assertion has failed and
\* every pointer a call in progress got from d_tail is non-null.
C15_TailNeverAbsent ==
    /\ d_tail # Null
    /\ d_head # Null
    /\ assertOk
    /\ \A c \in NodeIds : InProducer(c) => old[c] # Null
    /\ \A l \in LoadIds : lpc[l] \in {"load_read", "load_end"} => latest[l] # Null

\* C15 witness: a load and a swap have both passed their assertion, after
\* gcHead has deleted a node.
C15_Witness ==
    /\ \E l \in LoadIds : lpc[l] = "load_end"
    /\ \E c \in NodeIds : pc[c] = "swap_link"
    /\ FreedNodes # {}

\* C17: the node d_head refers to has not been deleted, in every state, the
\* states inside gcHead included.
C17_HeadNotFreed == ~IsFreed(d_head)

\* A gcHead call has returned that began with a successor linked to the
\* head and d_stopGc at 0, and ran with no other operation in progress.
QuietGcDone == gcPc = "idle" /\ gcBegan # Null /\ d_stopGc = 0

\* C18 as stated: after such a call every node that had a successor has
\* been deleted and d_head equals d_tail.
C18_GcWalksToTail_AsStated ==
    QuietGcDone =>
        /\ d_head = d_tail
        /\ \A n \in NodeIds : d_next_p[n] # Null => IsFreed(n)

\* C18 as amended: such a call deletes exactly one node, the head it found,
\* and leaves d_head at that node's successor, whether or not the successor
\* is the tail.
C18_GcFreesOne ==
    QuietGcDone =>
        /\ gcFreed = 1
        /\ IsFreed(gcBegan)
        /\ d_head = order[Pos(gcBegan) + 1]
        /\ ~IsFreed(d_head)

\* C18 witness: such a call has returned and d_head is still short of
\* d_tail.
C18_Witness == QuietGcDone /\ d_head # d_tail

C20_ProducerTouchesLiveNode ==
    \A c \in NodeIds : InProducer(c) => ~IsFreed(old[c])

\* C20 witness: gcHead is about to read the link of the very node a call in
\* progress holds as its predecessor.
C20_Witness ==
    \E c \in NodeIds : InProducer(c) /\ gcPc = "load_next" /\ node = old[c]

\* Node n has been swapped out of d_tail.
SwappedOut(n) == InOrder(n) /\ n # d_tail

\* C16: every node swapped out of d_tail eventually has a non-null d_next_p,
\* which is the node that replaced it; and a node swapped out, not deleted
\* and with a null d_next_p is the predecessor held by a call between its
\* tail exchange and its link store.
C16_EventuallyLinked ==
    /\ [](\A n \in NodeIds :
            (SwappedOut(n) /\ ~IsFreed(n) /\ d_next_p[n] = Null)
                => \E c \in NodeIds : InProducer(c) /\ old[c] = n)
    /\ \A n \in NodeIds :
          SwappedOut(n) ~> (d_next_p[n] # Null /\ prevOf[d_next_p[n]] = n)

\* C16 witness: every call of the budget has exchanged the tail and every
\* node swapped out has its link.
C16_Witness ==
    /\ nAlloc = MaxNodes
    /\ \A n \in NodeIds : SwappedOut(n) => d_next_p[n] # Null

====
